---- MODULE Spec2Model ----
(***************************************************************************)
(* SimpleVector<Type> over ArrayPtr<Type> (cpp-simple-vector).             *)
(*                                                                         *)
(* The heap is a finite set of blocks; a vector object owns at most one    *)
(* block through its ArrayPtr data_.  Element values are small integers,   *)
(* Type() is DefaultValue.  `new Type[n]` default-initialises: for a       *)
(* scalar Type the slots are indeterminate, for a class Type they are      *)
(* Type(); a moved-from element is unspecified.  Both are modelled as a    *)
(* free choice among Values.                                               *)
(*                                                                         *)
(* Two implementations live in the repository: simple_vector.h inlines     *)
(* allocate-move-swap in PushBack and InsertImpl ("inline"), the other     *)
(* file routes them through Reserve ("reserve").  impl selects which one   *)
(* a behaviour runs.                                                       *)
(***************************************************************************)
EXTENDS Integers, Sequences, FiniteSets, TLC

\* ------------------------------------------------------------------ bounds
\* Slots a vector may hold when it is the only one (Spec's heap budget).
MaxSlots == 4
\* Slots two vectors may hold together (SpecTwo's heap budget).
MaxShared == 3

\* ------------------------------------------------------- program constants
NullPtr == 0
DefaultValue == 0

\* The element type: Type() and one other value.  The container only assigns, moves
\* and default-constructs elements and never inspects them, so two values tell any
\* two slots apart.
Values == {DefaultValue, DefaultValue + 1}
VecIds == {"a", "b"}
BlockIds == 1..3
Impls == {"inline", "reserve"}

VARIABLES
    vec,    \* vec[v]: [alive, size, capacity, data] -- size_, capacity_, data_.raw_ptr_
    heap,   \* heap[b]: [live, elems] -- the block at address b
    impl,   \* which of the two SimpleVector implementations runs
    budget, \* the slots the heap can hold (fixed from the start)
    last    \* the last call: [op, v, ret, realloc, arg, off, pre, undo, stale, oldTop, newTop]

vars == <<vec, heap, impl, budget, last>>

\* ----------------------------------------------------------------- helpers
EmptyArr == [i \in {} |-> DefaultValue]

FreeBlock == [live |-> FALSE, elems |-> EmptyArr]

DeadVec == [alive |-> FALSE, size |-> 0, capacity |-> 0, data |-> NullPtr]

NoRet == [kind |-> "none", val |-> 0, blk |-> NullPtr]

ExtArg(x) == [ref |-> "ext", val |-> x, idx |-> 0]

\* The record of a call: what was called on which vector, what it returned, whether
\* it replaced the storage block, for Insert the offset and the sequence before, and
\* for Erase whether it erased at the position the call before it inserted at.
\* For Reserve, Resize, PushBack, Insert and Erase also the slots the call touched:
\* oldTop is one past the highest index it read or wrote in the block the vector held
\* when the call began, newTop the same for a block the call allocated (0: none), and
\* stale tells that it read through a reference into a block it had already deleted.
Call(op, v) ==
    [op |-> op, v |-> v, ret |-> NoRet, realloc |-> FALSE, arg |-> ExtArg(DefaultValue),
     off |-> 0, pre |-> EmptyArr, undo |-> FALSE, stale |-> FALSE, oldTop |-> 0, newTop |-> 0]

Max(x, y) == IF x >= y THEN x ELSE y

\* Contents of the block p points to (no block: nothing to address).
Block(h, p) == IF p = NullPtr THEN EmptyArr ELSE h[p].elems

\* The logical sequence [begin(), end()) of vector v.
ElemsOf(vs, h, v) == [i \in 0..(vs[v].size - 1) |-> Block(h, vs[v].data)[i]]

Elems(v) == ElemsOf(vec, heap, v)

RECURSIVE SumCap(_)
SumCap(S) ==
    IF S = {} THEN 0
    ELSE LET x == CHOOSE y \in S : TRUE
         IN (IF vec[x].alive THEN vec[x].capacity ELSE 0) + SumCap(S \ {x})

\* The model's heap budget: v may hold n slots beside the other vectors.
Fits(v, n) == n + SumCap(VecIds \ {v}) <= budget

\* new Type[n]: the address the allocator hands out (lowest free one).
NewAddr(h) == CHOOSE b \in BlockIds : ~h[b].live /\ \A c \in BlockIds : c < b => h[c].live

\* new Type[n]: the possible contents of the n fresh slots, of which the caller
\* overwrites [0, k) before anything reads them (shown as DefaultValue until then).
NewArray(n, k) ==
    {[i \in 0..(n - 1) |-> IF i < k THEN DefaultValue ELSE t[i]] : t \in [k..(n - 1) -> Values]}

\* ArrayPtr(size_t size): size ? new Type[size] : nullptr, holding `contents`.
ArrayPtrAddr(h, n) == IF n = 0 THEN NullPtr ELSE NewAddr(h)

ArrayPtrHeap(h, n, contents) ==
    IF n = 0 THEN h
    ELSE [h EXCEPT ![NewAddr(h)] = [live |-> TRUE, elems |-> contents]]

\* ~ArrayPtr(): delete[] raw_ptr_ (nothing for nullptr).
Delete(h, p) == IF p = NullPtr THEN h ELSE [h EXCEPT ![p] = FreeBlock]

\* The values a moved-from element may hold.
MovedFrom(x) == Values

\* ------------------------------------------------------------ constructors
\* SimpleVector(): size_ = 0, capacity_ = 0, data_ empty.
CtorDefault(v) ==
    /\ ~vec[v].alive
    /\ vec' = [vec EXCEPT ![v] = [alive |-> TRUE, size |-> 0, capacity |-> 0, data |-> NullPtr]]
    /\ last' = Call("CtorDefault", v)
    /\ UNCHANGED <<heap, impl, budget>>

\* SimpleVector(ReserveProxy): capacity_ = n, data_(n); the slots are only allocated.
CtorReserve(v, n) ==
    /\ ~vec[v].alive
    /\ Fits(v, n)
    /\ \E fresh \in NewArray(n, 0) :
          /\ heap' = ArrayPtrHeap(heap, n, fresh)
          /\ vec' = [vec EXCEPT ![v] = [alive |-> TRUE, size |-> 0, capacity |-> n,
                                        data |-> ArrayPtrAddr(heap, n)]]
    /\ last' = [Call("CtorReserve", v) EXCEPT !.realloc = n > 0]
    /\ UNCHANGED <<impl, budget>>

\* SimpleVector(size_t size, const Type& value): std::fill of all size slots.
CtorFill(v, n, x) ==
    /\ ~vec[v].alive
    /\ Fits(v, n)
    /\ heap' = ArrayPtrHeap(heap, n, [i \in 0..(n - 1) |-> x])
    /\ vec' = [vec EXCEPT ![v] = [alive |-> TRUE, size |-> n, capacity |-> n,
                                  data |-> ArrayPtrAddr(heap, n)]]
    /\ last' = [Call("CtorFill", v) EXCEPT !.realloc = n > 0]
    /\ UNCHANGED <<impl, budget>>

\* SimpleVector(size_t size): the same with Type().
CtorSize(v, n) ==
    /\ ~vec[v].alive
    /\ Fits(v, n)
    /\ heap' = ArrayPtrHeap(heap, n, [i \in 0..(n - 1) |-> DefaultValue])
    /\ vec' = [vec EXCEPT ![v] = [alive |-> TRUE, size |-> n, capacity |-> n,
                                  data |-> ArrayPtrAddr(heap, n)]]
    /\ last' = [Call("CtorSize", v) EXCEPT !.realloc = n > 0]
    /\ UNCHANGED <<impl, budget>>

\* SimpleVector(std::initializer_list<Type> init): std::copy of the list.
CtorInit(v, init) ==
    /\ ~vec[v].alive
    /\ LET n == Cardinality(DOMAIN init) IN
          /\ Fits(v, n)
          /\ heap' = ArrayPtrHeap(heap, n, init)
          /\ vec' = [vec EXCEPT ![v] = [alive |-> TRUE, size |-> n, capacity |-> n,
                                        data |-> ArrayPtrAddr(heap, n)]]
          /\ last' = [Call("CtorInit", v) EXCEPT !.realloc = n > 0]
    /\ UNCHANGED <<impl, budget>>

\* ~SimpleVector(): destroys data_.
Dtor(v) ==
    /\ vec[v].alive
    /\ heap' = Delete(heap, vec[v].data)
    /\ vec' = [vec EXCEPT ![v] = DeadVec]
    /\ last' = Call("Dtor", v)
    /\ UNCHANGED <<impl, budget>>

\* --------------------------------------------------------- std algorithms
\* std::move(src + first, src + last, dst + d) into another block.
MoveInto(dst, src, first, lst, d) ==
    [i \in DOMAIN dst |-> IF d <= i /\ i < d + (lst - first) THEN src[first + (i - d)] ELSE dst[i]]

\* std::move(p + first, p + last, p + d) inside one block, front to back.
RECURSIVE MoveFwd(_, _, _, _)
MoveFwd(blk, first, lst, d) ==
    IF first >= lst THEN blk
    ELSE MoveFwd([blk EXCEPT ![d] = blk[first]], first + 1, lst, d + 1)

\* std::move_backward(p + first, p + last, p + dlast) inside one block, back to front.
RECURSIVE MoveBwd(_, _, _, _)
MoveBwd(blk, first, lst, dlast) ==
    IF first >= lst THEN blk
    ELSE MoveBwd([blk EXCEPT ![dlast - 1] = blk[lst - 1]], first, lst - 1, dlast - 1)

\* ------------------------------------------------------------- operations
\* Mutant: the move stops one element short.
ReserveBlockShort(v, fresh) == MoveInto(fresh, Block(heap, vec[v].data), 0, vec[v].size - 1, 0)

\* The block Reserve(n) builds: the elements moved to the front of n fresh slots.
ReserveBlock(v, fresh) == MoveInto(fresh, Block(heap, vec[v].data), 0, vec[v].size, 0)

\* Mutant: the test is new_capacity >= capacity_.
ReserveAlways(v, n) ==
    /\ vec[v].alive
    /\ IF n >= vec[v].capacity
       THEN /\ Fits(v, n)
            /\ \E fresh \in NewArray(n, vec[v].size) :
                  /\ heap' = Delete(ArrayPtrHeap(heap, n, ReserveBlock(v, fresh)), vec[v].data)
                  /\ vec' = [vec EXCEPT ![v].data = ArrayPtrAddr(heap, n), ![v].capacity = n]
            /\ last' = [Call("Reserve", v) EXCEPT !.realloc = TRUE,
                           !.oldTop = vec[v].size, !.newTop = vec[v].size]
       ELSE /\ UNCHANGED <<vec, heap>>
            /\ last' = Call("Reserve", v)
    /\ UNCHANGED <<impl, budget>>

\* Reserve(new_capacity): a new block only when new_capacity > capacity_.
Reserve(v, n) ==
    /\ vec[v].alive
    /\ IF n > vec[v].capacity
       THEN /\ Fits(v, n)
            /\ \E fresh \in NewArray(n, vec[v].size) :
                  /\ heap' = Delete(ArrayPtrHeap(heap, n, ReserveBlock(v, fresh)), vec[v].data)
                  /\ vec' = [vec EXCEPT ![v].data = NewAddr(heap), ![v].capacity = n]
            /\ last' = [Call("Reserve", v) EXCEPT !.realloc = TRUE,
                           !.oldTop = vec[v].size, !.newTop = vec[v].size]
       ELSE /\ UNCHANGED <<vec, heap>>
            /\ last' = Call("Reserve", v)
    /\ UNCHANGED <<impl, budget>>

\* Mutant: Clear() also gives the storage back.
ClearFrees(v) ==
    /\ vec[v].alive
    /\ heap' = Delete(heap, vec[v].data)
    /\ vec' = [vec EXCEPT ![v].size = 0, ![v].capacity = 0, ![v].data = NullPtr]
    /\ last' = Call("Clear", v)
    /\ UNCHANGED <<impl, budget>>

\* Clear(): size_ = 0.
Clear(v) ==
    /\ vec[v].alive
    /\ vec' = [vec EXCEPT ![v].size = 0]
    /\ last' = Call("Clear", v)
    /\ UNCHANGED <<heap, impl, budget>>

\* Mutant: growing inside the capacity only sets size_, trusting the slots to hold Type().
ResizeNoFill(v, n) ==
    /\ vec[v].alive
    /\ LET sz == vec[v].size
           cap == vec[v].capacity
           p == vec[v].data
           newcap == Max(n, cap * 2)
       IN IF n <= cap
          THEN /\ vec' = [vec EXCEPT ![v].size = n]
               /\ heap' = heap
               /\ last' = Call("Resize", v)
          ELSE /\ Fits(v, newcap)
               /\ \E fresh \in NewArray(newcap, n) :
                     LET moved == MoveInto(fresh, Block(heap, p), 0, sz, 0)
                         filled == [i \in DOMAIN moved |->
                                       IF sz <= i /\ i < n THEN DefaultValue ELSE moved[i]]
                     IN /\ heap' = Delete(ArrayPtrHeap(heap, newcap, filled), p)
                        /\ vec' = [vec EXCEPT ![v].data = NewAddr(heap), ![v].size = n,
                                              ![v].capacity = newcap]
               /\ last' = [Call("Resize", v) EXCEPT !.realloc = TRUE, !.oldTop = sz, !.newTop = n]
    /\ UNCHANGED <<impl, budget>>

\* Resize(new_size): truncate, or default-fill in place, or grow to
\* max(new_size, 2 * capacity_) and default-fill.  (The record of an in-place growth
\* keeps the old size and what the slots it grew over held.)
Resize(v, n) ==
    /\ vec[v].alive
    /\ LET sz == vec[v].size
           cap == vec[v].capacity
           p == vec[v].data
           newcap == Max(n, cap * 2)
       IN IF n <= sz
          THEN /\ vec' = [vec EXCEPT ![v].size = n]
               /\ heap' = heap
               /\ last' = Call("Resize", v)
          ELSE IF n <= cap
          THEN /\ heap' = [heap EXCEPT ![p].elems =
                              [i \in DOMAIN @ |-> IF sz <= i /\ i < n THEN DefaultValue ELSE @[i]]]
               /\ vec' = [vec EXCEPT ![v].size = n]
               /\ last' = [Call("Resize", v) EXCEPT !.off = sz, !.oldTop = n,
                              !.pre = [i \in sz..(n - 1) |-> heap[p].elems[i]]]
          ELSE /\ Fits(v, newcap)
               /\ \E fresh \in NewArray(newcap, n) :
                     LET moved == MoveInto(fresh, Block(heap, p), 0, sz, 0)
                         filled == [i \in DOMAIN moved |->
                                       IF sz <= i /\ i < n THEN DefaultValue ELSE moved[i]]
                     IN /\ heap' = Delete(ArrayPtrHeap(heap, newcap, filled), p)
                        /\ vec' = [vec EXCEPT ![v].data = NewAddr(heap), ![v].size = n,
                                              ![v].capacity = newcap]
               /\ last' = [Call("Resize", v) EXCEPT !.realloc = TRUE, !.oldTop = sz, !.newTop = n]
    /\ UNCHANGED <<impl, budget>>

\* Mutant: PopBack also resets the slot it vacates to Type().
PopBackResets(v) ==
    /\ vec[v].alive
    /\ vec[v].size > 0
    /\ heap' = [heap EXCEPT ![vec[v].data].elems[vec[v].size - 1] = DefaultValue]
    /\ vec' = [vec EXCEPT ![v].size = @ - 1]
    /\ last' = Call("PopBack", v)
    /\ UNCHANGED <<impl, budget>>

\* PopBack(): assert(size_ > 0); --size_.
PopBack(v) ==
    /\ vec[v].alive
    /\ vec[v].size > 0
    /\ vec' = [vec EXCEPT ![v].size = @ - 1]
    /\ last' = Call("PopBack", v)
    /\ UNCHANGED <<heap, impl, budget>>

\* Mutant: the move stops one element short, std::move(.. + off + 1, .. + size_ - 1, ..).
EraseShort(v, off) ==
    /\ vec[v].alive
    /\ off < vec[v].size
    /\ LET sz == vec[v].size
           p == vec[v].data
           shifted == MoveFwd(heap[p].elems, off + 1, sz - 1, off)
       IN /\ heap' = [heap EXCEPT ![p].elems = shifted]
          /\ vec' = [vec EXCEPT ![v].size = sz - 1]
          /\ last' = [Call("Erase", v) EXCEPT !.off = off,
                         !.oldTop = IF off + 1 < sz THEN sz ELSE 0,
                         !.undo = (last.op = "Insert" /\ last.v = v /\ last.off = off),
                         !.pre = IF last.op = "Insert" /\ last.v = v /\ last.off = off
                                 THEN last.pre ELSE EmptyArr,
                         !.ret = [kind |-> "iter", val |-> off, blk |-> p]]
    /\ UNCHANGED <<impl, budget>>

\* Erase(pos), pos = begin() + off in [begin(), end()): the tail moves one slot left,
\* which leaves the old last slot moved-from when anything moved.
Erase(v, off) ==
    /\ vec[v].alive
    /\ off < vec[v].size
    /\ LET sz == vec[v].size
           p == vec[v].data
           shifted == MoveFwd(heap[p].elems, off + 1, sz, off)
       IN /\ \E m \in MovedFrom(shifted[sz - 1]) :
                heap' = [heap EXCEPT ![p].elems =
                            IF off + 1 < sz THEN [shifted EXCEPT ![sz - 1] = m] ELSE shifted]
          /\ vec' = [vec EXCEPT ![v].size = sz - 1]
          /\ last' = [Call("Erase", v) EXCEPT !.off = off,
                         !.oldTop = IF off + 1 < sz THEN sz ELSE 0,
                         !.undo = (last.op = "Insert" /\ last.v = v /\ last.off = off),
                         !.pre = IF last.op = "Insert" /\ last.v = v /\ last.off = off
                                 THEN last.pre ELSE EmptyArr,
                         !.ret = [kind |-> "iter", val |-> off, blk |-> p]]
    /\ UNCHANGED <<impl, budget>>

\* At(index): throws std::out_of_range when index >= size_, else data_[index].
At(v, i) ==
    /\ vec[v].alive
    /\ last' = [Call("At", v) EXCEPT !.off = i,
                   !.ret = IF i >= vec[v].size
                           THEN [kind |-> "out_of_range", val |-> 0, blk |-> NullPtr]
                           ELSE [kind |-> "value", val |-> heap[vec[v].data].elems[i],
                                 blk |-> NullPtr]]
    /\ UNCHANGED <<vec, heap, impl, budget>>

\* swap(other): exchanges data_, size_ and capacity_.  (The record tells whether the
\* vector holds another block than before.)
Swap(v, o) ==
    /\ vec[v].alive
    /\ vec[o].alive
    /\ vec' = [vec EXCEPT ![v] = vec[o], ![o] = vec[v]]
    /\ last' = [Call("swap", v) EXCEPT !.realloc = (vec[o].data # vec[v].data)]
    /\ UNCHANGED <<heap, impl, budget>>


\* ------------------------------------------------- PushBack and InsertImpl
\* The argument of PushBack/Insert is a reference: to an object outside the vector
\* (ref = "ext") or to the vector's own element idx (ref = "elem", as in
\* v.PushBack(v[0])); val is the value it refers to when the call starts.
Args(v) ==
    {ExtArg(x) : x \in Values}
        \cup {[ref |-> "elem", val |-> Block(heap, vec[v].data)[j], idx |-> j] :
                 j \in 0..(vec[v].size - 1)}

\* Mutant: the capacity is not doubled.
GrowCapSame(cap) == IF cap = 0 THEN 1 ELSE cap

\* capacity_ == 0 ? 1 : capacity_ * 2
GrowCap(cap) == IF cap = 0 THEN 1 ELSE cap * 2

\* The values a read through a reference into a deleted block may give.
Dangling(x) == Values

\* What `item` reads as while the block it may refer to is `blk`.
Deref(arg, blk) == IF arg.ref = "ext" THEN arg.val ELSE blk[arg.idx]

\* data_[size_] = item; ++size_ with room left (both implementations).
PushBackInPlace(v, arg, op) ==
    LET sz == vec[v].size
        p == vec[v].data
    IN /\ heap' = [heap EXCEPT ![p].elems[sz] = Deref(arg, heap[p].elems)]
       /\ vec' = [vec EXCEPT ![v].size = sz + 1]
       /\ last' = [Call(op, v) EXCEPT !.arg = arg, !.oldTop = sz + 1]

\* simple_vector.h: the full vector allocates, moves [0, size) over, then reads item.
PushBackInline(v, arg, op) ==
    LET sz == vec[v].size
        cap == vec[v].capacity
        p == vec[v].data
        old == Block(heap, p)
        newcap == GrowCap(cap)
    IN IF sz >= cap
       THEN /\ Fits(v, newcap)
            /\ \E fresh \in NewArray(newcap, sz + 1) :
               \E x \in (IF arg.ref = "ext" THEN {arg.val} ELSE MovedFrom(old[arg.idx])) :
                  LET moved == MoveInto(fresh, old, 0, sz, 0)
                  IN /\ heap' = Delete(ArrayPtrHeap(heap, newcap, [moved EXCEPT ![sz] = x]), p)
                     /\ vec' = [vec EXCEPT ![v].data = NewAddr(heap), ![v].capacity = newcap,
                                           ![v].size = sz + 1]
            /\ last' = [Call(op, v) EXCEPT !.arg = arg, !.realloc = TRUE,
                                           !.oldTop = sz, !.newTop = sz + 1]
       ELSE PushBackInPlace(v, arg, op)

\* The other implementation: Reserve(grown capacity) deletes the old block, then
\* data_[size_] = item reads item.
PushBackReserve(v, arg, op) ==
    LET sz == vec[v].size
        cap == vec[v].capacity
        p == vec[v].data
        newcap == GrowCap(cap)
    IN IF sz >= cap
       THEN /\ Fits(v, newcap)
            /\ \E fresh \in NewArray(newcap, sz + 1) :
               \E x \in (IF arg.ref = "ext" THEN {arg.val} ELSE Dangling(arg.val)) :
                  /\ heap' = Delete(ArrayPtrHeap(heap, newcap,
                                        [ReserveBlock(v, fresh) EXCEPT ![sz] = x]), p)
                  /\ vec' = [vec EXCEPT ![v].data = NewAddr(heap), ![v].capacity = newcap,
                                        ![v].size = sz + 1]
            /\ last' = [Call(op, v) EXCEPT !.arg = arg, !.realloc = TRUE, !.stale = (arg.ref = "elem"),
                                           !.oldTop = sz, !.newTop = sz + 1]
       ELSE PushBackInPlace(v, arg, op)

\* PushBack(const Type& item)
PushBack(v, arg) ==
    /\ vec[v].alive
    /\ IF impl = "inline" THEN PushBackInline(v, arg, "PushBack")
                          ELSE PushBackReserve(v, arg, "PushBack")
    /\ UNCHANGED <<impl, budget>>

\* PushBack(Type&& item), item an object outside the vector
PushBackMove(v, x) ==
    /\ vec[v].alive
    /\ IF impl = "inline" THEN PushBackInline(v, ExtArg(x), "PushBackMove")
                          ELSE PushBackReserve(v, ExtArg(x), "PushBackMove")
    /\ UNCHANGED <<impl, budget>>

\* The record of an Insert at off that left the vector's block at address q: in place
\* it touches the slots up to index size of its block, with a new block the elements
\* of the old one and the slots up to index size of the new one.
InsertCall(v, off, arg, q, realloc) ==
    [Call("Insert", v) EXCEPT !.arg = arg, !.off = off, !.pre = Elems(v), !.realloc = realloc,
                              !.oldTop = IF realloc THEN vec[v].size ELSE vec[v].size + 1,
                              !.newTop = IF realloc THEN vec[v].size + 1 ELSE 0,
                              !.ret = [kind |-> "iter", val |-> off, blk |-> q]]

\* std::move_backward of [off, size) one slot right, then data_[off] = value: the
\* shift leaves slot off moved-from, and value is read after the shift (only a value
\* that refers to slot off sees the moved-from element before it is overwritten).
InsertInPlace(v, off, arg) ==
    LET sz == vec[v].size
        p == vec[v].data
        old == heap[p].elems
        shifted == MoveBwd(old, off, sz, sz + 1)
    IN /\ \E m \in (IF off < sz /\ arg.ref = "elem" /\ arg.idx = off
                    THEN MovedFrom(old[off]) ELSE {shifted[off]}) :
             LET afterShift == [shifted EXCEPT ![off] = m]
             IN heap' = [heap EXCEPT ![p].elems = [afterShift EXCEPT ![off] = Deref(arg, afterShift)]]
       /\ vec' = [vec EXCEPT ![v].size = sz + 1]
       /\ last' = InsertCall(v, off, arg, p, FALSE)

\* simple_vector.h InsertImpl: the full vector allocates, moves [0, off) over, writes
\* value at off, moves [off, size) behind it, swaps the blocks.
InsertInline(v, off, arg) ==
    LET sz == vec[v].size
        cap == vec[v].capacity
        p == vec[v].data
        old == Block(heap, p)
        newcap == GrowCap(cap)
    IN IF sz >= cap
       THEN /\ Fits(v, newcap)
            /\ \E fresh \in NewArray(newcap, sz + 1) :
               \E x \in (IF arg.ref = "ext" THEN {arg.val}
                         ELSE IF arg.idx < off THEN MovedFrom(old[arg.idx])
                         ELSE {old[arg.idx]}) :
                  LET front == MoveInto(fresh, old, 0, off, 0)
                      placed == [front EXCEPT ![off] = x]
                      whole == MoveInto(placed, old, off, sz, off + 1)
                  IN /\ heap' = Delete(ArrayPtrHeap(heap, newcap, whole), p)
                     /\ vec' = [vec EXCEPT ![v].data = NewAddr(heap), ![v].capacity = newcap,
                                           ![v].size = sz + 1]
            /\ last' = InsertCall(v, off, arg, NewAddr(heap), TRUE)
       ELSE InsertInPlace(v, off, arg)

\* Mutant: the shift is std::move_backward(begin() + offset, end(), end()).
InsertReserveNoShift(v, off, arg) ==
    LET sz == vec[v].size
        cap == vec[v].capacity
        p == vec[v].data
        newcap == GrowCap(cap)
    IN IF sz >= cap
       THEN /\ Fits(v, newcap)
            /\ \E fresh \in NewArray(newcap, sz + 1) :
               \E x \in (IF arg.ref = "ext" THEN {arg.val} ELSE Dangling(arg.val)) :
                  LET shifted == MoveBwd(ReserveBlock(v, fresh), off, sz, sz)
                  IN /\ heap' = Delete(ArrayPtrHeap(heap, newcap, [shifted EXCEPT ![off] = x]), p)
                     /\ vec' = [vec EXCEPT ![v].data = NewAddr(heap), ![v].capacity = newcap,
                                           ![v].size = sz + 1]
            /\ last' = [InsertCall(v, off, arg, NewAddr(heap), TRUE) EXCEPT
                           !.stale = (arg.ref = "elem")]
       ELSE InsertInPlace(v, off, arg)

\* The other InsertImpl: Reserve(grown capacity) first (the old block is deleted),
\* then the in-place shift and data_[off] = value in the new block.
InsertReserve(v, off, arg) ==
    LET sz == vec[v].size
        cap == vec[v].capacity
        p == vec[v].data
        newcap == GrowCap(cap)
    IN IF sz >= cap
       THEN /\ Fits(v, newcap)
            /\ \E fresh \in NewArray(newcap, sz + 1) :
               \E x \in (IF arg.ref = "ext" THEN {arg.val} ELSE Dangling(arg.val)) :
                  LET shifted == MoveBwd(ReserveBlock(v, fresh), off, sz, sz + 1)
                  IN /\ heap' = Delete(ArrayPtrHeap(heap, newcap, [shifted EXCEPT ![off] = x]), p)
                     /\ vec' = [vec EXCEPT ![v].data = NewAddr(heap), ![v].capacity = newcap,
                                           ![v].size = sz + 1]
            /\ last' = [InsertCall(v, off, arg, NewAddr(heap), TRUE) EXCEPT
                           !.stale = (arg.ref = "elem")]
       ELSE InsertInPlace(v, off, arg)

\* Insert(pos, value), pos = begin() + off in [begin(), end()].
Insert(v, off, arg) ==
    /\ vec[v].alive
    /\ off <= vec[v].size
    /\ IF impl = "inline" THEN InsertInline(v, off, arg) ELSE InsertReserve(v, off, arg)
    /\ UNCHANGED <<impl, budget>>

\* ------------------------------------------------------------ copy and move
\* Mutant: capacity_(other.capacity_), data_(other.capacity_).
CtorCopyKeepsCapacity(v, o) ==
    /\ ~vec[v].alive
    /\ vec[o].alive
    /\ v # o
    /\ Fits(v, vec[o].capacity)
    /\ heap' = ArrayPtrHeap(heap, vec[o].capacity, Block(heap, vec[o].data))
    /\ vec' = [vec EXCEPT ![v] = [alive |-> TRUE, size |-> vec[o].size,
                                  capacity |-> vec[o].capacity,
                                  data |-> ArrayPtrAddr(heap, vec[o].capacity)]]
    /\ last' = [Call("CtorCopy", v) EXCEPT !.realloc = vec[o].capacity > 0]
    /\ UNCHANGED <<impl, budget>>

\* SimpleVector(const SimpleVector& other): a block of other.size_ slots, std::copy.
CtorCopy(v, o) ==
    /\ ~vec[v].alive
    /\ vec[o].alive
    /\ v # o
    /\ Fits(v, vec[o].size)
    /\ heap' = ArrayPtrHeap(heap, vec[o].size, Elems(o))
    /\ vec' = [vec EXCEPT ![v] = [alive |-> TRUE, size |-> vec[o].size, capacity |-> vec[o].size,
                                  data |-> ArrayPtrAddr(heap, vec[o].size)]]
    /\ last' = [Call("CtorCopy", v) EXCEPT !.realloc = vec[o].size > 0]
    /\ UNCHANGED <<impl, budget>>

\* Mutant: size_(other.size_) in place of std::exchange(other.size_, 0).
CtorMoveKeepsSize(v, o) ==
    /\ ~vec[v].alive
    /\ vec[o].alive
    /\ v # o
    /\ vec' = [vec EXCEPT ![v] = [alive |-> TRUE, size |-> vec[o].size,
                                  capacity |-> vec[o].capacity, data |-> vec[o].data],
                          ![o] = [alive |-> TRUE, size |-> vec[o].size, capacity |-> 0,
                                  data |-> NullPtr]]
    /\ last' = Call("CtorMove", v)
    /\ UNCHANGED <<heap, impl, budget>>

\* Mutant: data_(other.data_.Get()) in place of data_(other.data_.Release()).
CtorMoveNoRelease(v, o) ==
    /\ ~vec[v].alive
    /\ vec[o].alive
    /\ v # o
    /\ vec' = [vec EXCEPT ![v] = [alive |-> TRUE, size |-> vec[o].size,
                                  capacity |-> vec[o].capacity, data |-> vec[o].data],
                          ![o] = [alive |-> TRUE, size |-> 0, capacity |-> 0,
                                  data |-> vec[o].data]]
    /\ last' = Call("CtorMove", v)
    /\ UNCHANGED <<heap, impl, budget>>

\* SimpleVector(SimpleVector&& other): std::exchange of size_ and capacity_ with 0,
\* data_(other.data_.Release()).
CtorMove(v, o) ==
    /\ ~vec[v].alive
    /\ vec[o].alive
    /\ v # o
    /\ vec' = [vec EXCEPT ![v] = [alive |-> TRUE, size |-> vec[o].size,
                                  capacity |-> vec[o].capacity, data |-> vec[o].data],
                          ![o] = [alive |-> TRUE, size |-> 0, capacity |-> 0, data |-> NullPtr]]
    /\ last' = Call("CtorMove", v)
    /\ UNCHANGED <<heap, impl, budget>>

\* operator=(const SimpleVector& rhs): unless this == &rhs, SimpleVector temp(rhs);
\* swap(temp); temp's destructor deletes the block this held.
AssignCopy(v, o) ==
    /\ vec[v].alive
    /\ vec[o].alive
    /\ IF v # o
       THEN /\ Fits(v, vec[o].size)
            /\ heap' = Delete(ArrayPtrHeap(heap, vec[o].size, Elems(o)), vec[v].data)
            /\ vec' = [vec EXCEPT ![v] = [alive |-> TRUE, size |-> vec[o].size,
                                          capacity |-> vec[o].size,
                                          data |-> ArrayPtrAddr(heap, vec[o].size)]]
            /\ last' = [Call("AssignCopy", v) EXCEPT !.realloc = TRUE]
       ELSE /\ UNCHANGED <<vec, heap>>
            /\ last' = Call("AssignCopy", v)
    /\ UNCHANGED <<impl, budget>>

\* operator=(SimpleVector&& rhs): unless this == &rhs, swap(rhs); rhs.Clear().
AssignMove(v, o) ==
    /\ vec[v].alive
    /\ vec[o].alive
    /\ IF v # o
       THEN vec' = [vec EXCEPT ![v] = vec[o], ![o] = [vec[v] EXCEPT !.size = 0]]
       ELSE vec' = vec
    /\ last' = Call("AssignMove", v)
    /\ UNCHANGED <<heap, impl, budget>>

\* ------------------------------------------------------ allocation failure
\* new Type[n] with no room left on the heap throws std::bad_alloc; nothing in these
\* classes catches it, so the call ends at the allocation with what it had done.
BadAlloc(op, v) ==
    /\ last' = [Call(op, v) EXCEPT !.ret = [kind |-> "bad_alloc", val |-> 0, blk |-> NullPtr]]
    /\ UNCHANGED <<vec, heap>>

\* Mutant: capacity_ = new_capacity comes before the allocation.
ReserveThrowsAfterCapacity(v, n) ==
    /\ vec[v].alive
    /\ n > vec[v].capacity
    /\ ~Fits(v, n)
    /\ last' = [Call("ReserveThrows", v) EXCEPT
                   !.ret = [kind |-> "bad_alloc", val |-> 0, blk |-> NullPtr]]
    /\ vec' = [vec EXCEPT ![v].capacity = n]
    /\ UNCHANGED <<heap, impl, budget>>

\* Reserve(new_capacity): ArrayPtr<Type> new_data(new_capacity) is its first statement.
ReserveThrows(v, n) ==
    /\ vec[v].alive
    /\ n > vec[v].capacity
    /\ ~Fits(v, n)
    /\ BadAlloc("ReserveThrows", v)
    /\ UNCHANGED <<impl, budget>>

\* Resize(new_size) beyond the capacity: the allocation of max(new_size, 2 * capacity_)
\* slots is the first statement after the two early returns.
ResizeThrows(v, n) ==
    /\ vec[v].alive
    /\ n > vec[v].capacity
    /\ ~Fits(v, Max(n, vec[v].capacity * 2))
    /\ BadAlloc("ResizeThrows", v)
    /\ UNCHANGED <<impl, budget>>

\* PushBack (either overload) on a full vector: simple_vector.h allocates before it
\* moves anything, the other implementation calls Reserve first.
PushBackThrows(v) ==
    /\ vec[v].alive
    /\ vec[v].size >= vec[v].capacity
    /\ ~Fits(v, GrowCap(vec[v].capacity))
    /\ BadAlloc("PushBackThrows", v)
    /\ UNCHANGED <<impl, budget>>

\* InsertImpl on a full vector: the same, after offset = pos - begin().
InsertThrows(v, off) ==
    /\ vec[v].alive
    /\ off <= vec[v].size
    /\ vec[v].size >= vec[v].capacity
    /\ ~Fits(v, GrowCap(vec[v].capacity))
    /\ BadAlloc("InsertThrows", v)
    /\ UNCHANGED <<impl, budget>>

\* operator=(const SimpleVector& rhs): SimpleVector temp(rhs) throws before swap(temp).
AssignCopyThrows(v, o) ==
    /\ vec[v].alive
    /\ vec[o].alive
    /\ v # o
    /\ ~Fits(v, vec[o].size)
    /\ BadAlloc("AssignCopyThrows", v)
    /\ UNCHANGED <<impl, budget>>

\* ---------------------------------------------------- relational operators
\* std::equal(first1, last1, first2) over blocks l and r from index i up to n.
RECURSIVE StdEqual(_, _, _, _)
StdEqual(l, r, i, n) ==
    IF i >= n THEN TRUE
    ELSE IF l[i] # r[i] THEN FALSE
    ELSE StdEqual(l, r, i + 1, n)

\* std::lexicographical_compare over [l, l + nl) and [r, r + nr) from index i.
RECURSIVE StdLexCompare(_, _, _, _, _)
StdLexCompare(l, nl, r, nr, i) ==
    IF i # nl /\ i # nr
    THEN IF l[i] < r[i] THEN TRUE
         ELSE IF r[i] < l[i] THEN FALSE
         ELSE StdLexCompare(l, nl, r, nr, i + 1)
    ELSE i = nl /\ i # nr

\* Mutant: std::equal alone, without the comparison of the sizes.
OpEqNoSize(a, b) ==
    StdEqual(Block(heap, vec[a].data), Block(heap, vec[b].data), 0, vec[a].size)

\* operator==: lhs.GetSize() == rhs.GetSize() && std::equal(lhs.begin(), lhs.end(), rhs.begin())
OpEq(a, b) ==
    /\ vec[a].size = vec[b].size
    /\ StdEqual(Block(heap, vec[a].data), Block(heap, vec[b].data), 0, vec[a].size)

\* operator!=: !(lhs == rhs)
OpNe(a, b) == ~OpEq(a, b)

\* operator<: std::lexicographical_compare(lhs.begin(), lhs.end(), rhs.begin(), rhs.end())
OpLt(a, b) ==
    StdLexCompare(Block(heap, vec[a].data), vec[a].size, Block(heap, vec[b].data), vec[b].size, 0)

\* operator<=: !(rhs < lhs)
OpLe(a, b) == ~OpLt(b, a)

\* operator>: rhs < lhs
OpGt(a, b) == OpLt(b, a)

\* operator>=: !(lhs < rhs)
OpGe(a, b) == ~OpLt(a, b)

\* ------------------------------------------------------------------- state
\* Nothing is constructed yet.
InitState ==
    /\ vec = [v \in VecIds |-> DeadVec]
    /\ heap = [b \in BlockIds |-> FreeBlock]
    /\ impl \in Impls
    /\ last = Call("none", "a")

\* The constructors, the destructor and the mutators of one vector.
Calls(v) ==
    \/ CtorDefault(v)
    \/ \E n \in 0..budget : CtorReserve(v, n)
    \/ \E n \in 0..budget : CtorSize(v, n)
    \/ \E n \in 0..budget, x \in Values : CtorFill(v, n, x)
    \/ \E n \in 0..budget : \E init \in [0..(n - 1) -> Values] : CtorInit(v, init)
    \/ Dtor(v)
    \/ \E n \in 0..budget : Reserve(v, n)
    \/ \E n \in 0..budget : Resize(v, n)
    \/ Clear(v)
    \/ \E arg \in Args(v) : PushBack(v, arg)
    \/ \E x \in Values : PushBackMove(v, x)
    \/ PopBack(v)
    \/ \E off \in 0..vec[v].size : \E arg \in Args(v) : Insert(v, off, arg)
    \/ \E off \in 0..vec[v].size : Erase(v, off)
    \/ \E n \in 0..(budget + 1) : ReserveThrows(v, n)
    \/ \E n \in 0..(budget + 1) : ResizeThrows(v, n)
    \/ PushBackThrows(v)
    \/ \E off \in 0..vec[v].size : InsertThrows(v, off)

\* The checked reads of one vector.
Reads(v) == \E i \in 0..vec[v].capacity : At(v, i)

\* The calls that involve two vectors (or one vector twice).
Calls2(v, o) ==
    \/ CtorCopy(v, o)
    \/ CtorMove(v, o)
    \/ AssignCopy(v, o)
    \/ AssignMove(v, o)
    \/ Swap(v, o)
    \/ AssignCopyThrows(v, o)

\* One vector, "a", alone on the heap.
Init == InitState /\ budget = MaxSlots

Next == Calls("a") \/ Reads("a")

Spec == Init /\ [][Next]_vars

\* Two vectors sharing the heap.
InitTwo == InitState /\ budget = MaxShared

NextTwo ==
    \/ \E v \in VecIds : Calls(v)
    \/ \E v \in VecIds, o \in VecIds : Calls2(v, o)

SpecTwo == InitTwo /\ [][NextTwo]_vars

\* ================================================================== claims
SizeNext(v) == vec'[v].size

CapNext(v) == vec'[v].capacity

ElemsNext(v) == ElemsOf(vec', heap', v)

\* The step just taken is a call of one of `ops` on v.
Called(ops, v) == last'.op \in ops /\ last'.v = v

\* ------------------------------------------------------------------- C1
\* C1: every constructed vector has size <= capacity, whatever calls (Reserve, Resize,
\* Clear, PushBack, PopBack, Insert, Erase, swap, copy/move construction and
\* assignment) led to the state.
C1_SizeWithinCapacity ==
    \A v \in VecIds : vec[v].alive => vec[v].size <= vec[v].capacity

\* A move assignment has just handed a full block of two elements to its target
\* while the other vector keeps an emptied block.
C1_Witness ==
    /\ last.op = "AssignMove"
    /\ vec[last.v].size = 2 /\ vec[last.v].capacity = 2
    /\ \E o \in VecIds \ {last.v} : vec[o].alive /\ vec[o].size = 0 /\ vec[o].capacity = 1

\* ------------------------------------------------------------------- C2
\* C2 as stated: in every reachable state every slot at an index in [size, capacity)
\* holds Type().
C2_TailSlotsDefault ==
    \A v \in VecIds :
        vec[v].alive =>
            \A i \in vec[v].size..(vec[v].capacity - 1) :
                Block(heap, vec[v].data)[i] = DefaultValue

\* C2 amended: PopBack, Clear and a Resize that does not grow change size only and
\* leave every slot of the block as it was (the removed elements stay where they
\* were); Erase leaves every slot at or beyond the old size as it was.
C2_ShrinkLeavesSlots ==
    [][\A v \in VecIds :
          /\ (Called({"PopBack", "Clear"}, v) \/ (Called({"Resize"}, v) /\ SizeNext(v) <= vec[v].size))
                => /\ heap' = heap
                   /\ vec'[v].data = vec[v].data
                   /\ \A i \in SizeNext(v)..(vec[v].size - 1) :
                         Block(heap', vec'[v].data)[i] = Elems(v)[i]
          /\ Called({"Erase"}, v)
                => /\ vec'[v].data = vec[v].data
                   /\ \A i \in vec[v].size..(vec[v].capacity - 1) :
                         Block(heap', vec'[v].data)[i] = Block(heap, vec[v].data)[i]]_vars

\* PopBack has just removed an element that is not Type(): it is still in its slot.
C2_Witness ==
    /\ last.op = "PopBack"
    /\ vec[last.v].size < vec[last.v].capacity
    /\ Block(heap, vec[last.v].data)[vec[last.v].size] # DefaultValue

\* ------------------------------------------------------------------- C3
\* What C3 says of a PushBack of the value arg refers to.
PushBackPost(v, arg) ==
    LET sz == vec[v].size
        cap == vec[v].capacity
    IN /\ SizeNext(v) = sz + 1
       /\ \A i \in 0..(sz - 1) : ElemsNext(v)[i] = Elems(v)[i]
       /\ ElemsNext(v)[sz] = arg.val
       /\ CapNext(v) = IF sz < cap THEN cap ELSE Max(1, 2 * cap)

\* C3: PushBack(v) increases size by 1, leaves [0, old size) unchanged, makes
\* At(size - 1) return v, keeps capacity when old size < old capacity and makes it
\* max(1, 2 * old capacity) when old size == old capacity.
C3_PushBack ==
    [][\A v \in VecIds :
          Called({"PushBack", "PushBackMove"}, v) => PushBackPost(v, last'.arg)]_vars

\* The same for an argument that is not an element of the vector itself.
C3_PushBackOutside ==
    [][\A v \in VecIds :
          (Called({"PushBack", "PushBackMove"}, v) /\ last'.arg.ref = "ext")
              => PushBackPost(v, last'.arg)]_vars

\* ------------------------------------------------------------------- C4
\* What C4 says of an Insert at offset k of the value arg refers to.
InsertPost(v, k, arg) ==
    LET n == vec[v].size
        cap == vec[v].capacity
    IN /\ SizeNext(v) = n + 1
       /\ \A i \in 0..(k - 1) : ElemsNext(v)[i] = Elems(v)[i]
       /\ ElemsNext(v)[k] = arg.val
       /\ \A i \in (k + 1)..n : ElemsNext(v)[i] = Elems(v)[i - 1]
       /\ last'.ret = [kind |-> "iter", val |-> k, blk |-> vec'[v].data]
       /\ CapNext(v) = IF n < cap THEN cap ELSE Max(1, 2 * cap)

\* C4: Insert(begin + k, v) on a vector of size N gives size N + 1, [0, k) as before,
\* v at k, the old [k, N) at [k + 1, N + 1), returns begin + k of the resulting
\* storage, and keeps capacity (N < capacity) or makes it max(1, 2 * capacity).
C4_Insert ==
    [][\A v \in VecIds :
          Called({"Insert"}, v) => InsertPost(v, last'.off, last'.arg)]_vars

\* The same for an argument that is not an element of the vector itself.
C4_InsertOutside ==
    [][\A v \in VecIds :
          (Called({"Insert"}, v) /\ last'.arg.ref = "ext")
              => InsertPost(v, last'.off, last'.arg)]_vars

\* ------------------------------------------------------------------- C5
\* C5: Erase at offset k < size removes the element at k, shifts [k + 1, size) left
\* by one in order, decrements size, keeps capacity and returns begin + k; and an
\* Erase(begin + k) right after Insert(begin + k, v) gives back the sequence and the
\* size from before the Insert.
C5_Erase ==
    [][\A v \in VecIds :
          Called({"Erase"}, v) =>
              LET k == last'.off
                  n == vec[v].size
              IN /\ k < n
                 /\ SizeNext(v) = n - 1
                 /\ \A i \in 0..(k - 1) : ElemsNext(v)[i] = Elems(v)[i]
                 /\ \A i \in k..(n - 2) : ElemsNext(v)[i] = Elems(v)[i + 1]
                 /\ CapNext(v) = vec[v].capacity
                 /\ last'.ret = [kind |-> "iter", val |-> k, blk |-> vec'[v].data]
                 /\ vec'[v].data = vec[v].data
                 /\ (last.op = "Insert" /\ last.v = v /\ last.off = k)
                        => /\ ElemsNext(v) = last.pre
                           /\ SizeNext(v) = Cardinality(DOMAIN last.pre)]_vars

\* An Erase has just undone an Insert in the middle of three elements.
C5_Witness ==
    /\ last.op = "Erase"
    /\ last.undo
    /\ last.off = 1
    /\ vec[last.v].size = 3
    /\ Elems(last.v) = last.pre

\* ------------------------------------------------------------------- C6
\* C6: Resize(n) sets size to n; n <= size keeps [0, n) and capacity; size < n <=
\* capacity keeps [0, old size) and capacity and puts Type() at every index of
\* [old size, n), whatever the slot held; n > capacity keeps [0, old size), puts
\* Type() at [old size, n) and makes capacity max(n, 2 * old capacity).
C6_Resize ==
    [][\A v \in VecIds : \A n \in 0..budget :
          (Called({"Resize"}, v) /\ Resize(v, n)) =>
              LET sz == vec[v].size
                  cap == vec[v].capacity
              IN /\ SizeNext(v) = n
                 /\ \A i \in 0..(n - 1) :
                       ElemsNext(v)[i] = IF i < sz THEN Elems(v)[i] ELSE DefaultValue
                 /\ CapNext(v) = IF n <= cap THEN cap ELSE Max(n, 2 * cap)]_vars

\* Resize has just grown the size inside the capacity (no new block) over a slot that
\* PopBack had left holding a value other than Type().
C6_Witness ==
    /\ last.op = "Resize"
    /\ ~last.realloc
    /\ last.off < vec[last.v].size
    /\ last.pre # EmptyArr
    /\ \E i \in DOMAIN last.pre : last.pre[i] # DefaultValue

\* ------------------------------------------------------------------- C7
\* C7: Reserve(c) with c > capacity makes capacity exactly c and keeps size and
\* [0, size); Reserve(c) with c <= capacity changes nothing: size, capacity, the
\* elements and the storage block stay.
C7_Reserve ==
    [][\A v \in VecIds : \A c \in 0..budget :
          (Called({"Reserve"}, v) /\ Reserve(v, c)) =>
              IF c > vec[v].capacity
              THEN /\ CapNext(v) = c
                   /\ SizeNext(v) = vec[v].size
                   /\ ElemsNext(v) = Elems(v)
              ELSE /\ vec'[v] = vec[v]
                   /\ heap' = heap]_vars

\* Reserve has just moved two elements into a larger block.
C7_Witness ==
    /\ last.op = "Reserve"
    /\ last.realloc
    /\ vec[last.v].size = 2
    /\ vec[last.v].capacity = 3
    /\ Elems(last.v)[0] # Elems(last.v)[1]

\* ------------------------------------------------------------------- C8
\* The logical sequence of v as the call before built it: what Insert and PushBack
\* were asked to store, and the stored elements otherwise.
Logical(v) ==
    IF last.v = v /\ last.op = "Insert"
    THEN [i \in 0..(vec[v].size - 1) |->
             IF i < last.off THEN last.pre[i]
             ELSE IF i = last.off THEN last.arg.val
             ELSE last.pre[i - 1]]
    ELSE IF last.v = v /\ last.op \in {"PushBack", "PushBackMove"}
    THEN [i \in 0..(vec[v].size - 1) |->
             IF i = vec[v].size - 1 THEN last.arg.val ELSE Elems(v)[i]]
    ELSE Elems(v)

\* C8: At(i) with i < size returns the i-th element of the logical sequence the calls
\* built; At(i) with i >= size (i == size and i < capacity included) raises
\* out_of_range; either way size, capacity and the elements stay.
C8_At ==
    [][\A v \in VecIds : \A i \in 0..budget :
          (Called({"At"}, v) /\ At(v, i)) =>
              /\ vec' = vec /\ heap' = heap
              /\ IF i < vec[v].size
                 THEN last'.ret.kind = "value" /\ last'.ret.val = Logical(v)[i]
                 ELSE last'.ret.kind = "out_of_range"]_vars

\* At's own part: it returns the stored element i when i < size, raises out_of_range
\* when i >= size, and changes nothing.
C8_AtStored ==
    [][\A v \in VecIds : \A i \in 0..budget :
          (Called({"At"}, v) /\ At(v, i)) =>
              /\ vec' = vec /\ heap' = heap
              /\ IF i < vec[v].size
                 THEN last'.ret.kind = "value" /\ last'.ret.val = Elems(v)[i]
                 ELSE last'.ret.kind = "out_of_range"]_vars

\* ------------------------------------------------------------------- C9
\* The calls on one vector alone that change it.
Mutators ==
    {"Reserve", "Resize", "Clear", "PushBack", "PushBackMove", "PopBack", "Insert", "Erase"}

\* C9: copy construction gives the source's element sequence with capacity == size in
\* a block that is not the source's; and a mutation of one of two vectors leaves the
\* other's size, capacity, block and elements as they were.
C9_Copy ==
    [][\A v \in VecIds : \A o \in VecIds \ {v} :
          /\ Called({"CtorCopy"}, v)
                => /\ ElemsNext(v) = Elems(o)
                   /\ SizeNext(v) = vec[o].size
                   /\ CapNext(v) = vec[o].size
                   /\ vec'[v].data # NullPtr => vec'[v].data # vec[o].data
                   /\ vec'[o] = vec[o]
                   /\ ElemsNext(o) = Elems(o)
          /\ (Called(Mutators, v) /\ vec[o].alive)
                => /\ vec'[o] = vec[o]
                   /\ Block(heap', vec'[o].data) = Block(heap, vec[o].data)]_vars

\* A copy has just been made of a source that holds one element other than Type() and
\* has room for a second.
C9_Witness ==
    /\ last.op = "CtorCopy"
    /\ vec[last.v].size = 1 /\ vec[last.v].capacity = 1
    /\ \E o \in VecIds \ {last.v} :
          /\ vec[o].alive /\ vec[o].size = 1 /\ vec[o].capacity = 2
          /\ Elems(o) = Elems(last.v)
          /\ Elems(o)[0] # DefaultValue
          /\ vec[o].data # vec[last.v].data

\* ------------------------------------------------------------------ C10
\* C10: move construction leaves the source with size 0, capacity 0 and no buffer and
\* gives the new vector the source's former size, capacity, block and elements.
C10_MoveCtor ==
    [][\A v \in VecIds : \A o \in VecIds \ {v} :
          Called({"CtorMove"}, v) =>
              /\ vec'[o] = [alive |-> TRUE, size |-> 0, capacity |-> 0, data |-> NullPtr]
              /\ SizeNext(v) = vec[o].size
              /\ CapNext(v) = vec[o].capacity
              /\ vec'[v].data = vec[o].data
              /\ heap' = heap
              /\ ElemsNext(v) = Elems(o)]_vars

\* A vector has just been move-constructed from one holding two elements in a block
\* of three.
C10_Witness ==
    /\ last.op = "CtorMove"
    /\ vec[last.v].size = 2 /\ vec[last.v].capacity = 3
    /\ \E o \in VecIds \ {last.v} : vec[o].alive /\ vec[o].data = NullPtr

\* ------------------------------------------------------------------ C11
\* C11: a = std::move(b) between two distinct vectors in any states leaves b with
\* size 0 and capacity 0 and gives a the former elements, size and capacity of b.
C11_MoveAssign ==
    [][\A v \in VecIds : \A o \in VecIds \ {v} :
          (Called({"AssignMove"}, v) /\ AssignMove(v, o)) =>
              /\ vec'[o].size = 0
              /\ vec'[o].capacity = 0
              /\ SizeNext(v) = vec[o].size
              /\ CapNext(v) = vec[o].capacity
              /\ ElemsNext(v) = Elems(o)]_vars

\* What the move assignment does to the source: it is left with size 0 and with the
\* capacity and the block the destination had.
C11_MoveAssignSwaps ==
    [][\A v \in VecIds : \A o \in VecIds \ {v} :
          (Called({"AssignMove"}, v) /\ AssignMove(v, o)) =>
              /\ vec'[o] = [vec[v] EXCEPT !.size = 0]
              /\ vec'[v] = vec[o]
              /\ ElemsNext(v) = Elems(o)
              /\ heap' = heap]_vars

\* ------------------------------------------------------------------ C12
\* C12: Clear sets size to 0 and keeps capacity and the storage block; PopBack on a
\* non-empty vector, Erase at a valid position and Resize to a size <= the current
\* size keep capacity and the storage block as well.
C12_ShrinkKeepsCapacity ==
    [][\A v \in VecIds :
          /\ Called({"Clear"}, v) => SizeNext(v) = 0
          /\ (Called({"Clear", "PopBack", "Erase"}, v)
                 \/ (Called({"Resize"}, v) /\ SizeNext(v) <= vec[v].size))
                => /\ CapNext(v) = vec[v].capacity
                   /\ vec'[v].data = vec[v].data
                   /\ vec[v].data # NullPtr
                         => /\ heap'[vec[v].data].live
                            /\ DOMAIN heap'[vec[v].data].elems = DOMAIN heap[vec[v].data].elems]_vars

\* Clear has just emptied a vector that keeps its block of two slots, the first of
\* which still holds a value other than Type().
C12_Witness ==
    /\ last.op = "Clear"
    /\ vec[last.v].size = 0
    /\ vec[last.v].capacity = 2
    /\ heap[vec[last.v].data].live
    /\ heap[vec[last.v].data].elems[0] # DefaultValue

\* ------------------------------------------------------------------ C13
\* The two element sequences are equal: the same size and the same element at every
\* index of [0, size).
SeqEq(a, b) ==
    /\ vec[a].size = vec[b].size
    /\ \A i \in 0..(vec[a].size - 1) : Elems(a)[i] = Elems(b)[i]

\* The sequence of a is before that of b in the lexicographic order: they agree on
\* [0, k) and then a ends while b goes on, or a holds the smaller element at k.
SeqLess(a, b) ==
    \E k \in 0..vec[a].size :
        /\ k <= vec[b].size
        /\ \A i \in 0..(k - 1) : Elems(a)[i] = Elems(b)[i]
        /\ \/ k = vec[a].size /\ k < vec[b].size
           \/ k < vec[a].size /\ k < vec[b].size /\ Elems(a)[k] < Elems(b)[k]

\* C13: for any two vectors reached by any calls, a == b iff the sizes are equal and
\* the elements at every index of [0, size) are (whatever the capacities and the
\* slots beyond size hold); a < b is the lexicographic order of the two sequences, a
\* proper prefix being less; !=, <=, > and >= are !(a == b), !(b < a), b < a and
\* !(a < b); and exactly one of a < b, a == b, a > b holds.
C13_Compare ==
    \A a \in VecIds : \A b \in VecIds :
        (vec[a].alive /\ vec[b].alive) =>
            /\ OpEq(a, b) <=> SeqEq(a, b)
            /\ OpLt(a, b) <=> SeqLess(a, b)
            /\ OpNe(a, b) <=> ~SeqEq(a, b)
            /\ OpLe(a, b) <=> ~SeqLess(b, a)
            /\ OpGt(a, b) <=> SeqLess(b, a)
            /\ OpGe(a, b) <=> ~SeqLess(a, b)
            /\ Cardinality({r \in {"lt", "eq", "gt"} :
                               \/ r = "lt" /\ OpLt(a, b)
                               \/ r = "eq" /\ OpEq(a, b)
                               \/ r = "gt" /\ OpGt(a, b)}) = 1

\* Two vectors compare equal that hold the same single element in blocks of
\* different capacity, the spare slot holding yet another value.
C13_Witness ==
    /\ vec["a"].alive /\ vec["b"].alive
    /\ vec["a"].size = 1 /\ vec["a"].capacity = 1
    /\ vec["b"].size = 1 /\ vec["b"].capacity = 2
    /\ heap[vec["b"].data].elems[1] # heap[vec["a"].data].elems[0]
    /\ OpEq("a", "b")
    /\ ~OpLt("a", "b") /\ ~OpGt("a", "b")

\* ------------------------------------------------------------------ C14
\* The calls that ended in std::bad_alloc.
Thrown == {"ReserveThrows", "ResizeThrows", "PushBackThrows", "InsertThrows", "AssignCopyThrows"}

\* C14: when the allocation of the new buffer fails in a growing Reserve, Resize,
\* PushBack or Insert, or in the temporary copy of a copy assignment, the failure
\* propagates and size, capacity, the storage block and the elements are as before
\* the call (of every vector, and every block of the heap).
C14_AllocationFailure ==
    [][\A v \in VecIds :
          Called(Thrown, v) =>
              /\ last'.ret.kind = "bad_alloc"
              /\ vec' = vec
              /\ heap' = heap
              /\ ElemsNext(v) = Elems(v)]_vars

\* An Insert into a full vector of two different elements has just failed to allocate.
C14_Witness ==
    /\ last.op = "InsertThrows"
    /\ last.ret.kind = "bad_alloc"
    /\ vec[last.v].size = 2 /\ vec[last.v].capacity = 2
    /\ Elems(last.v)[0] # Elems(last.v)[1]

\* ------------------------------------------------------------------ C15
\* Every allocated block is held by exactly one vector (at most one owner, and none
\* left without an owner), and every buffer a vector holds is an allocated block, so
\* that no destructor deletes a block a second time.
Owned ==
    /\ \A b \in BlockIds :
          heap[b].live => Cardinality({v \in VecIds : vec[v].alive /\ vec[v].data = b}) = 1
    /\ \A v \in VecIds : (vec[v].alive /\ vec[v].data # NullPtr) => heap[vec[v].data].live
    /\ \A v \in VecIds : ~vec[v].alive => vec[v].data = NullPtr

\* A step frees only blocks that had an owner, and the destruction of a vector whose
\* buffer was released or moved away frees nothing.
FreesOwned ==
    /\ \A b \in BlockIds :
          (heap[b].live /\ ~heap'[b].live) => \E v \in VecIds : vec[v].alive /\ vec[v].data = b
    /\ \A v \in VecIds :
          (Called({"Dtor"}, v) /\ vec[v].data = NullPtr) => heap' = heap
    /\ \A v \in VecIds : \A o \in VecIds \ {v} :
          Called({"CtorMove"}, v) => vec'[o].data = NullPtr

\* C15: across any calls every allocated block has at most one owner, is deallocated
\* exactly once (never twice, never leaked) and is never accessed after its
\* deallocation; a buffer that was released or moved from is empty and its
\* destruction frees nothing.
C15_Ownership ==
    Owned /\ [][Owned' /\ FreesOwned /\ ~last'.stale]_vars

\* The ownership part alone, without the accesses.
C15_OwnershipOnly ==
    Owned /\ [][Owned' /\ FreesOwned]_vars

\* The same with the accesses, for calls whose argument is not an element of the
\* vector itself.
C15_OwnershipOutside ==
    Owned /\ [][Owned' /\ FreesOwned /\ (last'.arg.ref = "ext" => ~last'.stale)]_vars

\* ------------------------------------------------------------------ C16
\* The number of slots of the block p points to.
BlockLen(h, p) == Cardinality(DOMAIN Block(h, p))

\* The buffer of every vector is an allocated block of exactly capacity slots, or no
\* block when capacity is 0.
BufferFits ==
    \A v \in VecIds :
        vec[v].alive =>
            IF vec[v].capacity > 0
            THEN /\ vec[v].data # NullPtr
                 /\ heap[vec[v].data].live
                 /\ DOMAIN heap[vec[v].data].elems = 0..(vec[v].capacity - 1)
            ELSE vec[v].data = NullPtr

BlockFollowsCapacity(v) ==
    IF CapNext(v) = vec[v].capacity
    THEN vec'[v].data = vec[v].data
    ELSE /\ vec'[v].data # vec[v].data
         /\ vec[v].data # NullPtr => ~heap'[vec[v].data].live

\* C17 as stated: for every mutator (Reserve, Resize, Clear, PushBack, PopBack, Insert,
\* Erase, swap) a call that leaves the capacity unchanged leaves the storage block
\* the same (begin() unchanged), and a call that changes the capacity replaces the
\* block and deallocates the old one.
C17_ViewsFollowCapacity ==
    [][\A v \in VecIds :
          Called(Mutators \cup {"swap"}, v) => BlockFollowsCapacity(v)]_vars

\* C17 amended: that holds of Reserve, Resize, Clear, PushBack, PopBack, Insert and
\* Erase; swap exchanges the blocks, sizes and capacities of the two vectors and
\* deallocates nothing, so the vector holds the other's former block whether or not
\* the capacities are equal, and its own former block lives on in the other vector.
C17_BlockFollowsCapacity ==
    [][\A v \in VecIds :
          /\ Called(Mutators, v) => BlockFollowsCapacity(v)
          /\ Called({"swap"}, v) =>
                \E o \in VecIds :
                    /\ vec'[v] = vec[o]
                    /\ vec'[o] = vec[v]
                    /\ heap' = heap]_vars

\* swap has just exchanged the blocks of two vectors of the same capacity.
C17_Witness ==
    /\ last.op = "swap"
    /\ last.realloc
    /\ \A v \in VecIds : vec[v].alive /\ vec[v].capacity = 1
    /\ vec["a"].data # vec["b"].data

\* ------------------------------------------------------------------ C18
\* C18: the two implementations are observationally equivalent.  They differ in
\* PushBack and InsertImpl only, so from the same state and for the same call with an
\* argument that is not an element of the vector, every step of one is a step of the
\* other: the same size, the same capacity, the same elements (and block contents) and
\* the same offset returned by Insert.
C18_SameSteps ==
    [][\A v \in VecIds :
          /\ (Called({"PushBack", "PushBackMove"}, v) /\ last'.arg.ref = "ext")
                => /\ PushBackInline(v, last'.arg, last'.op)
                   /\ PushBackReserve(v, last'.arg, last'.op)
          /\ (Called({"Insert"}, v) /\ last'.arg.ref = "ext")
                => /\ InsertInline(v, last'.off, last'.arg)
                   /\ InsertReserve(v, last'.off, last'.arg)
                   /\ last'.ret.val = last'.off]_vars

\* The Reserve-based implementation has just inserted an outside value in the middle
\* of a full vector of two different elements, which made it reallocate.
C18_Witness ==
    /\ impl = "reserve"
    /\ last.op = "Insert"
    /\ last.realloc
    /\ last.arg.ref = "ext"
    /\ last.off = 1
    /\ vec[last.v].size = 3 /\ vec[last.v].capacity = 4
    /\ Elems(last.v)[0] # Elems(last.v)[2]

====
